---- MODULE Spec2Model ----
(***************************************************************************)
(* ExpressiveCodeEngine (packages/@expressive-code/core/src/common/        *)
(* engine.ts): construction of the engine from a configuration object and  *)
(* the pull-based accessors getThemeStyles, getBaseStyles, getJsModules.   *)
(*                                                                         *)
(* Conventions                                                             *)
(*  - an optional value is a tuple: <<>> is undefined, <<v>> is v;         *)
(*  - a theme instance is an index into heap (object identity), its record *)
(*    holds the instance's current fields;                                 *)
(*  - a caller-supplied function is denoted by its name;                   *)
(*  - JS indices are 0-based: styleVariantIndex k is position k + 1;       *)
(*  - a stylesheet string is the sequence of its rules, concatenation of   *)
(*    strings is concatenation of sequences.                               *)
(***************************************************************************)
EXTENDS Integers, Sequences, FiniteSets, TLC

VARIABLES
    pc,               \* "new" before the constructor ran, "ready" after
    configIn,         \* the configuration object as the caller built it
    config,           \* the same object as it is now (the constructor writes to it)
    heap,             \* theme instances: heap[id] is the instance's fields
    engine,           \* the engine's own (readonly) properties
    calls,            \* calls the constructor made, in order
    asBuilt,          \* engine and heap as they were when the constructor returned
    themeStyles,      \* outcome of the latest getThemeStyles call
    firstThemeStyles, \* outcome of the first getThemeStyles call
    themeCalls,       \* number of getThemeStyles calls so far
    baseStyles,       \* outcome of the latest getBaseStyles call
    jsModules         \* outcome of the latest getJsModules call

vars == <<pc, configIn, config, heap, engine, calls, asBuilt, themeStyles,
          firstThemeStyles, themeCalls, baseStyles, jsModules>>

----------------------------------------------------------------------------
(* Bounds *)

MaxThemes == 3

MaxThemeCalls == 2

----------------------------------------------------------------------------
(* Values *)

Undefined == <<>>

Some(v) == <<v>>

\* a ?? b
Nullish(opt, default) == IF opt = Undefined THEN default ELSE opt[1]

\* the value `false` of a `string | false` result; a string s is <<s>>
False == <<>>

\* JS truthiness of a `string | false` value
Truthy(v) == v # False /\ v # <<"">>

\* themeCssSelector: false
SelectorOff == "false"

\* the caller's theme instances, allocated before the engine is constructed
CallerHeap ==
    << [name |-> "dark1",  type |-> "dark",  bg |-> "#000", fg |-> "#fff", contrast |-> Undefined],
       [name |-> "light1", type |-> "light", bg |-> "#fff", fg |-> "#000", contrast |-> Undefined],
       [name |-> "light2", type |-> "light", bg |-> "#fff", fg |-> "#333", contrast |-> Undefined] >>

\* shiki/themes/github-dark.mjs and github-light.mjs as loaded themes
githubDark == [name |-> "github-dark", type |-> "dark", bg |-> "#24292e", fg |-> "#e1e4e8", contrast |-> Undefined]

githubLight == [name |-> "github-light", type |-> "light", bg |-> "#fff", fg |-> "#24292e", contrast |-> Undefined]

\* minSyntaxHighlightingColorContrast default 5.5, in tenths
DefaultMinContrast == 55

corePlugins == << [name |-> "Indent", baseStyles |-> Undefined, jsModules |-> Undefined] >>

\* config.plugins: plugins and arrays of plugins; a module's code is the
\* sequence of its tokens, " " being white space
ConfigPlugins ==
    << << [name |-> "frames", baseStyles |-> Some([fn |-> FALSE, css |-> ".frame{}"]),
           jsModules |-> Some([fn |-> FALSE, mods |-> << <<" ", "copy()", " ">>, <<>>, <<"tabs()">> >>])] >>,
       << [name |-> "markers", baseStyles |-> Some([fn |-> TRUE, css |-> ".mark{}"]),
           jsModules |-> Some([fn |-> TRUE, mods |-> << <<"copy()">>, <<" ", " ">> >>])],
          [name |-> "empty", baseStyles |-> Some([fn |-> TRUE, css |-> ""]),
           jsModules |-> Undefined] >> >>

RECURSIVE SeqsUpTo(_, _)
SeqsUpTo(S, n) ==
    IF n = 0 THEN {<<>>}
    ELSE LET shorter == SeqsUpTo(S, n - 1)
         IN  shorter \cup {Append(s, x) : s \in {t \in shorter : Len(t) = n - 1}, x \in S}

\* the configuration objects a caller passes (ExpressiveCodeEngineConfig);
\* a negative minimum contrast, which only the constructor reads, is paired
\* with the default stylesheet options, and the deprecated `theme` is given
\* alone or next to a `themes` array of at most one theme
Configs ==
  { c \in
    [ themes : {Undefined} \cup {Some(s) : s \in SeqsUpTo(1..Len(CallerHeap), MaxThemes)},
      theme : {Undefined, Some(2)},
      minSyntaxHighlightingColorContrast : {Undefined, Some(0), Some(-10)},
      useDarkModeMediaQuery : {Undefined, Some(TRUE), Some(FALSE)},
      themeCssRoot : {Undefined},
      themeCssSelector : {Undefined, Some(SelectorOff), Some("custom")},
      cascadeLayer : {Undefined, Some("ec")},
      useStyleReset : {Undefined},
      customizeTheme : {Undefined, Some("replaceLightByDark"), Some("setTypeLight")},
      styleOverrides : {Undefined, Some(<< <<"codeBackground", "#123">> >>)},
      plugins : {Some(ConfigPlugins)} ] :
    /\ (c.minSyntaxHighlightingColorContrast # Undefined /\ c.minSyntaxHighlightingColorContrast[1] < 0) =>
          /\ c.useDarkModeMediaQuery = Undefined
          /\ c.themeCssSelector = Undefined
          /\ c.cascadeLayer = Undefined
    /\ (c.theme # Undefined /\ c.themes # Undefined) => Len(c.themes[1]) <= 1 }

NoEngine == [constructed |-> FALSE]

NoResult == [returned |-> Undefined, thrown |-> Undefined]

----------------------------------------------------------------------------
(* Collaborators of the engine that live outside engine.ts *)

\* Map.get: <<>> when the key is absent, <<value>> otherwise
RECURSIVE MapGet(_, _)
MapGet(entries, key) ==
    IF entries = <<>> THEN Undefined
    ELSE IF entries[Len(entries)][1] = key THEN Some(entries[Len(entries)][2])
    ELSE MapGet(SubSeq(entries, 1, Len(entries) - 1), key)

\* style-settings.ts getCssVarName: a fixed, injective name per setting path
getCssVarName(path) == "--ec-" \o path

\* style-resolving.ts resolveStyleSettings: one value per declared setting
\* path, in contributor order; an override wins over the theme's own value
resolveStyleSettings(theme, styleVariantIndex, plugins, styleOverrides) ==
    LET pick(path, own) == Nullish(MapGet(styleOverrides, path), own)
    IN  << <<"codeBackground", pick("codeBackground", theme.bg)>>,
           <<"codeForeground", pick("codeForeground", theme.fg)>>,
           <<"frames.shadowColor", pick("frames.shadowColor", "#888")>> >>

\* color-transforms.ts getFirstStaticColor
getFirstStaticColor(value) == value

\* theme.ts ensureMinSyntaxHighlightingColorContrast: rewrites the theme's
\* syntax colours in place against the given background
ensureMinSyntaxHighlightingColorContrast(theme, minContrast, codeBg) ==
    [theme EXCEPT !.contrast = Some(<<minContrast, codeBg>>)]

\* style-variants.ts resolveStyleVariants: one variant per theme, in order
resolveStyleVariants(h, themes, styleOverrides, plugins) ==
    [ i \in 1..Len(themes) |->
        LET settings == resolveStyleSettings(h[themes[i]], i - 1, plugins, styleOverrides)
        IN  [ theme |-> themes[i],
              styleVariantIndex |-> i - 1,
              cssVarDeclarations |->
                  [ k \in 1..Len(settings) |-> <<getCssVarName(settings[k][1]), settings[k][2]>> ] ] ]

\* css.ts wrapInCascadeLayer
wrapInCascadeLayer(css, cascadeLayer) ==
    IF cascadeLayer = "" THEN css
    ELSE << [kind |-> "layer", name |-> cascadeLayer, body |-> css] >>

\* the caller's customizeTheme functions: the heap after the call and what
\* the call returned (Undefined for void, Some(id) for a theme instance)
ApplyCustomizeTheme(fn, h, id) ==
    CASE fn = "replaceLightByDark" ->
           IF h[id].type = "light"
           THEN [ heap |-> Append(h, [h[id] EXCEPT !.name = @ \o "-dim", !.type = "dark", !.bg = "#000"]),
                  ret |-> Some(Len(h) + 1) ]
           ELSE [ heap |-> h, ret |-> Undefined ]
      [] fn = "setTypeLight" ->
           [ heap |-> [h EXCEPT ![id].type = "light"], ret |-> Undefined ]

\* the caller's themeCssSelector functions: string | false
ApplyThemeCssSelector(fn, theme) ==
    CASE fn = "default" -> Some("[data-theme='" \o theme.name \o "']")
      [] fn = "custom" ->
           IF theme.name = "light1" THEN False
           ELSE IF theme.name = "light2" THEN Some("")
           ELSE Some(".theme-" \o theme.name)

----------------------------------------------------------------------------
(* The constructor *)

\* the deprecated option moved over whether or not `themes` is given
MigrateDeprecatedThemeAlways(cfg) ==
    IF cfg.theme # Undefined
    THEN [cfg EXCEPT !.themes = Some(<<cfg.theme[1]>>), !.theme = Undefined]
    ELSE cfg

\* lines 232-236: the deprecated `theme` option is moved into `themes`
\* (config.theme is an ExpressiveCodeTheme by its type, so the array arm of
\* line 234 is not taken)
MigrateDeprecatedTheme(cfg) ==
    IF cfg.theme # Undefined /\ cfg.themes = Undefined
    THEN [cfg EXCEPT !.themes = Some(<<cfg.theme[1]>>), !.theme = Undefined]
    ELSE cfg

\* line 237: the engine's own theme list; the built-in themes are new instances
InitialThemes(cfg, h) ==
    IF cfg.themes # Undefined
    THEN [ themes |-> cfg.themes[1], heap |-> h ]
    ELSE [ themes |-> <<Len(h) + 1, Len(h) + 2>>, heap |-> h \o <<githubDark, githubLight>> ]

\* line 239
DefaultUseDarkModeMediaQuery(h, themes) ==
    Len(themes) = 2 /\ h[themes[1]].type # h[themes[2]].type

\* line 250
RECURSIVE Flat(_)
Flat(list) == IF list = <<>> THEN <<>> ELSE Head(list) \o Flat(Tail(list))

\* the pass also runs for 0
ContrastEnabledFromZero(e) == e.minSyntaxHighlightingColorContrast >= 0

\* line 258
ContrastEnabled(e) == e.minSyntaxHighlightingColorContrast > 0

\* the callback's return value dropped
CustomizedThemeAsGiven(returned, theme) == theme

\* line 256
CustomizedTheme(returned, theme) == Nullish(returned, theme)

\* lines 254-272, one turn of the map callback for the theme at position i
CustomizeOne(e, acc, i) ==
    LET theme0  == acc.input[i]
        custom  == IF e.customizeTheme # Undefined
                   THEN ApplyCustomizeTheme(e.customizeTheme[1], acc.heap, theme0)
                   ELSE [heap |-> acc.heap, ret |-> Undefined]
        theme   == CustomizedTheme(custom.ret, theme0)
        calls1  == IF e.customizeTheme # Undefined
                   THEN Append(acc.calls, [op |-> "customizeTheme", index |-> i - 1,
                                             theme |-> theme0, args |-> <<>>,
                                             returned |-> custom.ret])
                   ELSE acc.calls
        adjust  == ContrastEnabled(e)
        settings == resolveStyleSettings(custom.heap[theme], i - 1, e.plugins, e.styleOverrides)
        codeBg  == getFirstStaticColor(MapGet(settings, "codeBackground")[1])
    IN  [ input |-> acc.input,
          themes |-> Append(acc.themes, theme),
          heap |-> IF adjust
                   THEN [custom.heap EXCEPT ![theme] =
                            ensureMinSyntaxHighlightingColorContrast(@, e.minSyntaxHighlightingColorContrast, codeBg)]
                   ELSE custom.heap,
          calls |-> IF adjust
                    THEN calls1 \o << [op |-> "resolveStyleSettings", index |-> i - 1,
                                       theme |-> theme, args |-> <<e.styleOverrides>>,
                                       returned |-> Undefined],
                                      [op |-> "ensureMinSyntaxHighlightingColorContrast", index |-> i - 1,
                                       theme |-> theme,
                                       args |-> <<e.minSyntaxHighlightingColorContrast, codeBg>>,
                                       returned |-> Undefined] >>
                    ELSE calls1 ]

\* lines 254-272: this.themes.map(...)
RECURSIVE CustomizeThemes(_, _, _)
CustomizeThemes(e, acc, i) ==
    IF i > Len(acc.input) THEN acc
    ELSE CustomizeThemes(e, CustomizeOne(e, acc, i), i + 1)

\* the themes as configured, not as customizeTheme left them
VariantThemesAsConfigured(customized) == customized.input

\* lines 275-280: the themes handed to resolveStyleVariants
VariantThemes(customized) == customized.themes

\* lines 230-281
Construct(cfgIn, h) ==
    LET cfg   == MigrateDeprecatedTheme(cfgIn)
        init  == InitialThemes(cfg, h)
        e0    == [ constructed |-> TRUE,
                   themes |-> init.themes,
                   minSyntaxHighlightingColorContrast |->
                       Nullish(cfg.minSyntaxHighlightingColorContrast, DefaultMinContrast),
                   useDarkModeMediaQuery |->
                       Nullish(cfg.useDarkModeMediaQuery, DefaultUseDarkModeMediaQuery(init.heap, init.themes)),
                   themeCssRoot |-> Nullish(cfg.themeCssRoot, ":root"),
                   themeCssSelector |-> Nullish(cfg.themeCssSelector, "default"),
                   cascadeLayer |-> Nullish(cfg.cascadeLayer, ""),
                   useStyleReset |-> Nullish(cfg.useStyleReset, TRUE),
                   customizeTheme |-> cfg.customizeTheme,
                   styleOverrides |-> Nullish(cfg.styleOverrides, <<>>),
                   plugins |-> corePlugins \o Flat(Nullish(cfg.plugins, <<>>)),
                   styleVariants |-> <<>> ]
        done  == CustomizeThemes(e0, [input |-> init.themes, themes |-> <<>>,
                                      heap |-> init.heap, calls |-> <<>>], 1)
    IN  [ config |-> cfg,
          heap |-> done.heap,
          calls |-> Append(done.calls, [op |-> "resolveStyleVariants", index |-> 0,
                                        theme |-> 0, args |-> <<VariantThemes(done)>>,
                                        returned |-> Undefined]),
          engine |-> [e0 EXCEPT !.themes = done.themes,
                                !.styleVariants =
                                    resolveStyleVariants(done.heap, VariantThemes(done),
                                                         e0.styleOverrides, e0.plugins)] ]

----------------------------------------------------------------------------
(* getThemeStyles *)

\* core-styles.ts getCoreThemeStyles: the core styles of one style variant
getCoreThemeStyles(styleVariantIndex) == <<"core-theme-styles", styleVariantIndex>>

\* line 374: `name:value` per declaration, joined by ";" in map order
renderDeclarations(declarations) ==
    [ k \in 1..Len(declarations) |-> declarations[k][1] \o ":" \o declarations[k][2] ]

\* line 380 and line 460: this.themeCssSelector && this.themeCssSelector(theme, ...)
ThemeSelector(e, h, theme) ==
    IF e.themeCssSelector = SelectorOff THEN False
    ELSE ApplyThemeCssSelector(e.themeCssSelector, h[theme])

\* line 381
NotBaseThemeSelector(e, h) ==
    LET baseThemeSelector == ThemeSelector(e, h, e.styleVariants[1].theme)
    IN  IF Truthy(baseThemeSelector) THEN ":not(" \o baseThemeSelector[1] \o ")" ELSE ""

\* line 382
BaseThemeBlockInsideAlternateThemeRoot(e, h) ==
    LET baseThemeSelector == ThemeSelector(e, h, e.styleVariants[1].theme)
        notBaseThemeSelector == NotBaseThemeSelector(e, h)
    IN  IF notBaseThemeSelector = "" THEN ""
        ELSE e.themeCssRoot \o notBaseThemeSelector \o " &" \o baseThemeSelector[1]

\* lines 383-398: [a, b].filter((selector) => selector).join(',')
FilterJoin(a, b) ==
    IF a = "" THEN b ELSE IF b = "" THEN a ELSE a \o "," \o b

\* lines 376-408: the block of the base theme
BaseBlock(e, h) ==
    [ kind |-> "base",
      scheme |-> "",
      varSelectors |-> FilterJoin(e.themeCssRoot, BaseThemeBlockInsideAlternateThemeRoot(e, h)),
      vars |-> renderDeclarations(e.styleVariants[1].cssVarDeclarations),
      styleSelectors |-> FilterJoin("&", BaseThemeBlockInsideAlternateThemeRoot(e, h)),
      coreStyles |-> getCoreThemeStyles(0) ]

\* a declaration is kept only when the base has no such name
DiffVarsByName(declarations, baseVars) ==
    SelectSeq(declarations, LAMBDA d : MapGet(baseVars, d[1]) = Undefined)

\* lines 416-421
DiffVars(declarations, baseVars) ==
    SelectSeq(declarations, LAMBDA d : MapGet(baseVars, d[1]) # Some(d[2]))

\* lines 411-428
AlternateVariants(e) ==
    [ styleVariantIndex \in 1..(Len(e.styleVariants) - 1) |->
        LET styleVariant == e.styleVariants[styleVariantIndex + 1]
        IN  [ theme |-> styleVariant.theme,
              cssVars |-> renderDeclarations(
                  DiffVars(styleVariant.cssVarDeclarations, e.styleVariants[1].cssVarDeclarations)),
              coreStyles |-> getCoreThemeStyles(styleVariantIndex) ] ]

\* line 434
AltType(e, h) == IF h[e.styleVariants[1].theme].type = "dark" THEN "light" ELSE "dark"

\* Array.prototype.findLast in place of find
LastAltVariant(e, h) ==
    LET alternateVariants == AlternateVariants(e)
        hits == {k \in 1..Len(alternateVariants) : h[alternateVariants[k].theme].type = AltType(e, h)}
    IN  IF hits = {} THEN 0 ELSE CHOOSE k \in hits : \A j \in hits : k >= j

\* line 435: Array.prototype.find, as the position found (0 when none)
FirstAltVariant(e, h) ==
    LET alternateVariants == AlternateVariants(e)
        hits == {k \in 1..Len(alternateVariants) : h[alternateVariants[k].theme].type = AltType(e, h)}
    IN  IF hits = {} THEN 0 ELSE CHOOSE k \in hits : \A j \in hits : k <= j

\* the message lists the alternate variants' themes only
DarkModeErrorAlternatesOnly(e, h) ==
    [ name |-> "Error",
      option |-> "useDarkModeMediaQuery: true",
      themes |-> [ i \in 1..(Len(e.themes) - 1) |->
                      h[e.themes[i + 1]].name \o " (" \o h[e.themes[i + 1]].type \o ")" ] ]

\* lines 437-443
DarkModeError(e, h) ==
    [ name |-> "Error",
      option |-> "useDarkModeMediaQuery: true",
      themes |-> [ i \in 1..Len(e.themes) |-> h[e.themes[i]].name \o " (" \o h[e.themes[i]].type \o ")" ] ]

\* lines 444-453
DarkModeMediaQuery(e, h) ==
    LET firstAltVariant == AlternateVariants(e)[FirstAltVariant(e, h)]
    IN  [ kind |-> "media",
          scheme |-> AltType(e, h),
          varSelectors |-> e.themeCssRoot \o NotBaseThemeSelector(e, h),
          vars |-> firstAltVariant.cssVars,
          styleSelectors |-> e.themeCssRoot \o NotBaseThemeSelector(e, h) \o " &",
          coreStyles |-> firstAltVariant.coreStyles ]

\* lines 463-470
ThemeBlock(e, h, variant, themeSelector) ==
    LET selectors == e.themeCssRoot \o themeSelector \o " &" \o NotBaseThemeSelector(e, h)
                     \o ", &" \o themeSelector
    IN  [ kind |-> "theme",
          scheme |-> "",
          varSelectors |-> selectors,
          vars |-> variant.cssVars,
          styleSelectors |-> selectors,
          coreStyles |-> variant.coreStyles ]

\* only `false` skips a variant
HasThemeBlockUnlessFalse(e, h, variant) == ThemeSelector(e, h, variant.theme) # False

\* line 461: the variants that get a block of their own
HasThemeBlock(e, h, variant) == Truthy(ThemeSelector(e, h, variant.theme))

\* lines 457-472
RECURSIVE ThemeBlocks(_, _, _)
ThemeBlocks(e, h, alternateVariants) ==
    IF e.themeCssSelector = SelectorOff \/ alternateVariants = <<>> THEN <<>>
    ELSE LET variant == Head(alternateVariants)
             rest == ThemeBlocks(e, h, Tail(alternateVariants))
         IN  IF HasThemeBlock(e, h, variant)
             THEN <<ThemeBlock(e, h, variant, ThemeSelector(e, h, variant.theme)[1])>> \o rest
             ELSE rest

\* the media query pushed after the per-theme blocks
ThemeStyleFragmentsMediaLast(e, h) ==
    <<BaseBlock(e, h)>>
    \o ThemeBlocks(e, h, AlternateVariants(e))
    \o (IF e.useDarkModeMediaQuery THEN <<DarkModeMediaQuery(e, h)>> ELSE <<>>)

\* lines 399, 454, 463: the pushes onto themeStyles, in program order
ThemeStyleFragments(e, h) ==
    <<BaseBlock(e, h)>>
    \o (IF e.useDarkModeMediaQuery THEN <<DarkModeMediaQuery(e, h)>> ELSE <<>>)
    \o ThemeBlocks(e, h, AlternateVariants(e))

\* every fragment wrapped on its own before the join
RECURSIVE WrapEach(_, _)
WrapEach(fragments, cascadeLayer) ==
    IF fragments = <<>> THEN <<>>
    ELSE wrapInCascadeLayer(<<Head(fragments)>>, cascadeLayer) \o WrapEach(Tail(fragments), cascadeLayer)

ThemeStylesOutputWrapEach(e, h) == WrapEach(ThemeStyleFragments(e, h), e.cascadeLayer)

\* line 473
ThemeStylesOutput(e, h) == wrapInCascadeLayer(ThemeStyleFragments(e, h), e.cascadeLayer)

\* what a call of getThemeStyles gives its caller: a returned string or a
\* thrown error (line 377 throws a TypeError when there is no style variant)
getThemeStyles(e, h) ==
    IF Len(e.styleVariants) = 0
    THEN [ returned |-> Undefined, thrown |-> Some([name |-> "TypeError", option |-> "", themes |-> <<>>]) ]
    ELSE IF e.useDarkModeMediaQuery /\ FirstAltVariant(e, h) = 0
    THEN [ returned |-> Undefined, thrown |-> Some(DarkModeError(e, h)) ]
    ELSE [ returned |-> Some(ThemeStylesOutput(e, h)), thrown |-> Undefined ]

\* the base variant taken off the engine's own array (Array.prototype.shift)
EngineAfterShift(e) ==
    [e EXCEPT !.styleVariants = IF Len(@) > 1 THEN Tail(@) ELSE @]

\* lines 372-474 assign to no property of the engine
EngineAfterGetThemeStyles(e) == e

----------------------------------------------------------------------------
(* getBaseStyles and getJsModules *)

\* lines 504-510: the context handed to plugins
getResolverContext(e) == [styleVariants |-> e.styleVariants]

\* core-styles.ts getCoreBaseStyles
getCoreBaseStyles(context, useStyleReset) ==
    [kind |-> "plugin-base", pluginName |-> "core", styles |-> IF useStyleReset THEN "reset+core" ELSE "core"]

\* lines 338-346
RECURSIVE PluginBaseStyles(_, _)
PluginBaseStyles(plugins, context) ==
    IF plugins = <<>> THEN <<>>
    ELSE LET plugin == Head(plugins)
             rest == PluginBaseStyles(Tail(plugins), context)
         IN  IF plugin.baseStyles = Undefined \/ plugin.baseStyles[1].css = "" THEN rest
             ELSE <<[kind |-> "plugin-base", pluginName |-> plugin.name, styles |-> plugin.baseStyles[1].css]>> \o rest

\* lines 325-348: the processed styles, in contributor order
BaseStyleFragments(e) ==
    <<getCoreBaseStyles(getResolverContext(e), e.useStyleReset)>>
    \o PluginBaseStyles(e.plugins, getResolverContext(e))

\* line 349
getBaseStyles(e) == wrapInCascadeLayer(BaseStyleFragments(e), e.cascadeLayer)

\* line 493: String.prototype.trim
RECURSIVE Trim(_)
Trim(code) ==
    IF code = <<>> THEN code
    ELSE IF Head(code) = " " THEN Trim(Tail(code))
    ELSE IF code[Len(code)] = " " THEN Trim(SubSeq(code, 1, Len(code) - 1))
    ELSE code

\* lines 492-495: Set.add of every trimmed, non-empty module
RECURSIVE AddModules(_, _)
AddModules(added, pluginModules) ==
    IF pluginModules = <<>> THEN added
    ELSE LET moduleCode == Trim(Head(pluginModules))
             next == IF moduleCode # <<>> /\ \A k \in 1..Len(added) : added[k] # moduleCode
                     THEN Append(added, moduleCode) ELSE added
         IN  AddModules(next, Tail(pluginModules))

\* lines 488-498
RECURSIVE CollectJsModules(_, _)
CollectJsModules(added, plugins) ==
    IF plugins = <<>> THEN added
    ELSE LET plugin == Head(plugins)
         IN  CollectJsModules(
                 IF plugin.jsModules = Undefined THEN added
                 ELSE AddModules(added, plugin.jsModules[1].mods),
                 Tail(plugins))

getJsModules(e) == CollectJsModules(<<>>, e.plugins)

----------------------------------------------------------------------------
(* The state machine *)

Init ==
    /\ pc = "new"
    /\ configIn = Undefined
    /\ config = Undefined
    /\ heap = CallerHeap
    /\ engine = NoEngine
    /\ calls = <<>>
    /\ asBuilt = Undefined
    /\ themeStyles = NoResult
    /\ firstThemeStyles = NoResult
    /\ themeCalls = 0
    /\ baseStyles = Undefined
    /\ jsModules = Undefined

\* new ExpressiveCodeEngine(cfg)
New ==
    /\ pc = "new"
    /\ \E cfg \in Configs :
         LET made == Construct(cfg, heap)
         IN  /\ configIn' = Some(cfg)
             /\ config' = Some(made.config)
             /\ heap' = made.heap
             /\ engine' = made.engine
             /\ calls' = made.calls
             /\ asBuilt' = Some([engine |-> made.engine, heap |-> made.heap])
    /\ pc' = "ready"
    /\ UNCHANGED <<themeStyles, firstThemeStyles, themeCalls, baseStyles, jsModules>>

\* await engine.getThemeStyles()
GetThemeStyles ==
    /\ pc = "ready"
    /\ themeCalls < MaxThemeCalls
    /\ themeStyles' = getThemeStyles(engine, heap)
    /\ firstThemeStyles' = IF themeCalls = 0 THEN themeStyles' ELSE firstThemeStyles
    /\ themeCalls' = themeCalls + 1
    /\ engine' = EngineAfterGetThemeStyles(engine)
    /\ UNCHANGED <<pc, configIn, config, heap, calls, asBuilt, baseStyles, jsModules>>

\* await engine.getBaseStyles()
GetBaseStyles ==
    /\ pc = "ready"
    /\ baseStyles' = Some(getBaseStyles(engine))
    /\ UNCHANGED <<pc, configIn, config, heap, engine, calls, asBuilt, themeStyles,
                   firstThemeStyles, themeCalls, jsModules>>

\* await engine.getJsModules()
GetJsModules ==
    /\ pc = "ready"
    /\ jsModules' = Some(getJsModules(engine))
    /\ UNCHANGED <<pc, configIn, config, heap, engine, calls, asBuilt, themeStyles,
                   firstThemeStyles, themeCalls, baseStyles>>

Next == New \/ GetThemeStyles \/ GetBaseStyles \/ GetJsModules

Spec == Init /\ [][Next]_vars

----------------------------------------------------------------------------
(* Vocabulary of the properties *)

\* the theme list the configuration asks for, before any customizeTheme
\* call: `themes` when given, else the deprecated `theme` alone, else the
\* two built-in themes (the first instances allocated after the caller's)
ConfiguredThemes ==
    LET cfg == configIn[1]
    IN  IF cfg.themes # Undefined THEN cfg.themes[1]
        ELSE IF cfg.theme # Undefined THEN <<cfg.theme[1]>>
        ELSE <<Len(CallerHeap) + 1, Len(CallerHeap) + 2>>

\* the instance customizeTheme returned for index i (0-based), if any
ReplacementAt(i) ==
    IF \E c \in 1..Len(calls) :
          calls[c].op = "customizeTheme" /\ calls[c].index = i /\ calls[c].returned # Undefined
    THEN Some((CHOOSE r \in {calls[c].returned[1] : c \in {d \in 1..Len(calls) :
                  calls[d].op = "customizeTheme" /\ calls[d].index = i /\ calls[d].returned # Undefined}} : TRUE))
    ELSE Undefined

\* a getThemeStyles call has returned a stylesheet
Returned == pc = "ready" /\ themeCalls > 0 /\ themeStyles.returned # Undefined

\* the rules of a stylesheet, inside its @layer rule when it has one
Rules(css) == IF Len(css) = 1 /\ css[1].kind = "layer" THEN css[1].body ELSE css

\* the rules of the stylesheet the latest getThemeStyles call returned
Emitted == Rules(themeStyles.returned[1])

TypeOf(i) == heap[engine.styleVariants[i].theme].type

Opposite(type) == IF type = "dark" THEN "light" ELSE "dark"

\* the alternate variants (positions >= 2) of the type opposite to the base's
OppositeAlternates ==
    {i \in 2..Len(engine.styleVariants) : TypeOf(i) = Opposite(TypeOf(1))}

\* the declarations of variant i (position) that differ from the base's,
\* as `name:value` strings in the variant's declaration order
ExpectedDiff(i) ==
    LET decl == engine.styleVariants[i].cssVarDeclarations
        base == engine.styleVariants[1].cssVarDeclarations
        kept == {j \in 1..Len(decl) :
                    ~ \E b \in 1..Len(base) : base[b][1] = decl[j][1] /\ base[b][2] = decl[j][2]}
        nth(m) == CHOOSE j \in kept : Cardinality({x \in kept : x < j}) = m - 1
    IN  [m \in 1..Cardinality(kept) |-> decl[nth(m)][1] \o ":" \o decl[nth(m)][2]]

\* the rules emitted for alternate variant i (position), of one kind
RulesOf(kind, i) ==
    {r \in 1..Len(Emitted) : Emitted[r].kind = kind /\ Emitted[r].coreStyles[2] = i - 1}

----------------------------------------------------------------------------
(* C1: once the constructor has run for a configuration asking for N       *)
(* themes, styleVariants has exactly N entries and styleVariants[i].theme  *)
(* is the very instance engine.themes[i], with or without customizeTheme   *)
(* replacing instances; calls of getThemeStyles, getBaseStyles and         *)
(* getJsModules leave this as it is.                                       *)
C1_VariantsAlignedWithThemes ==
    pc = "ready" =>
        /\ Len(engine.themes) = Len(ConfiguredThemes)
        /\ Len(engine.styleVariants) = Len(ConfiguredThemes)
        /\ \A i \in 1..Len(ConfiguredThemes) :
              /\ engine.styleVariants[i].theme = engine.themes[i]
              /\ engine.styleVariants[i].styleVariantIndex = i - 1

\* three themes, one replaced by customizeTheme, and every accessor called
C1_Witness ==
    /\ pc = "ready"
    /\ Len(engine.themes) = 3
    /\ \E i \in 1..3 : engine.themes[i] # ConfiguredThemes[i]
    /\ themeCalls > 0 /\ baseStyles # Undefined /\ jsModules # Undefined

----------------------------------------------------------------------------
(* C2: in a stylesheet getThemeStyles returns, the variable declarations   *)
(* of every rule emitted for an alternate variant (its selector block, the *)
(* media-query block) are exactly that variant's (name, value) pairs whose *)
(* value is not string-equal to the base variant's value for the name, in  *)
(* the variant's declaration order, so none at all when the variant equals *)
(* the base in every key; the base block carries the base variant's full   *)
(* declaration set.                                                        *)
C2_DiffAgainstBase ==
    Returned =>
        /\ \A r \in 1..Len(Emitted) :
              Emitted[r].kind \in {"theme", "media"} =>
                  /\ Emitted[r].coreStyles[2] \in 1..(Len(engine.styleVariants) - 1)
                  /\ Emitted[r].vars = ExpectedDiff(Emitted[r].coreStyles[2] + 1)
        /\ \A r \in 1..Len(Emitted) :
              Emitted[r].kind = "base" =>
                  LET base == engine.styleVariants[1].cssVarDeclarations
                  IN  Emitted[r].vars = [k \in 1..Len(base) |-> base[k][1] \o ":" \o base[k][2]]

\* one alternate block without any declaration (the variant equals the
\* base) next to one that keeps some of its declarations and drops others
C2_Witness ==
    /\ Returned
    /\ \E r \in 1..Len(Emitted) : Emitted[r].kind = "theme" /\ Emitted[r].vars = <<>>
    /\ \E r \in 1..Len(Emitted) :
          /\ Emitted[r].kind = "theme"
          /\ Len(Emitted[r].vars) > 0
          /\ Len(Emitted[r].vars) <
                Len(engine.styleVariants[Emitted[r].coreStyles[2] + 1].cssVarDeclarations)

----------------------------------------------------------------------------
(* C3: when useDarkModeMediaQuery is true and no alternate theme has the   *)
(* type opposite to the base theme's, getThemeStyles throws an error that  *)
(* lists every theme of the engine as `name (type)` and returns nothing.   *)
C3_MissingOppositeThemeThrows ==
    (/\ pc = "ready" /\ themeCalls > 0
     /\ engine.useDarkModeMediaQuery
     /\ Len(engine.themes) >= 1
     /\ OppositeAlternates = {}) =>
        /\ themeStyles.returned = Undefined
        /\ themeStyles.thrown # Undefined
        /\ themeStyles.thrown[1].name = "Error"
        /\ Len(themeStyles.thrown[1].themes) = Len(engine.themes)
        /\ \A i \in 1..Len(engine.themes) :
              themeStyles.thrown[1].themes[i] =
                  heap[engine.themes[i]].name \o " (" \o heap[engine.themes[i]].type \o ")"

\* the call has failed for two themes of one type, the media query having
\* been asked for explicitly
C3_Witness ==
    /\ pc = "ready" /\ themeCalls > 0
    /\ configIn[1].useDarkModeMediaQuery = Some(TRUE)
    /\ Len(engine.themes) = 2
    /\ OppositeAlternates = {}
    /\ themeStyles.thrown # Undefined

----------------------------------------------------------------------------
(* C4: when the useDarkModeMediaQuery option is not supplied, the engine's *)
(* useDarkModeMediaQuery is true if and only if the engine's themes list   *)
(* has exactly 2 themes and their types differ, for every configuration,   *)
(* also when customizeTheme replaces a theme or changes its type.          *)
C4_DefaultMediaQueryFollowsEngineThemes ==
    (pc = "ready" /\ configIn[1].useDarkModeMediaQuery = Undefined) =>
        (engine.useDarkModeMediaQuery <=>
            (/\ Len(engine.themes) = 2
             /\ heap[engine.themes[1]].type # heap[engine.themes[2]].type))

----------------------------------------------------------------------------
(* C5: when useDarkModeMediaQuery is true and some alternate theme has the *)
(* type opposite to the base theme's, the returned stylesheet has exactly  *)
(* one media-query block, for the scheme opposite to the base theme's      *)
(* type, holding the declarations and core styles of the lowest-index      *)
(* alternate variant of that type.                                         *)
C5_MediaQueryUsesFirstOppositeVariant ==
    (/\ pc = "ready" /\ themeCalls > 0
     /\ engine.useDarkModeMediaQuery
     /\ Len(engine.themes) >= 1
     /\ OppositeAlternates # {}) =>
        LET first == CHOOSE i \in OppositeAlternates : \A j \in OppositeAlternates : i <= j
            media == {r \in 1..Len(Emitted) : Emitted[r].kind = "media"}
        IN  /\ themeStyles.returned # Undefined
            /\ Cardinality(media) = 1
            /\ \A r \in media :
                  /\ Emitted[r].scheme = Opposite(TypeOf(1))
                  /\ Emitted[r].coreStyles = getCoreThemeStyles(first - 1)
                  /\ Emitted[r].vars = ExpectedDiff(first)

\* the base is followed by an alternate of its own type and then by two of
\* the opposite type whose declarations differ from each other
C5_Witness ==
    /\ Returned
    /\ engine.useDarkModeMediaQuery
    /\ \E i, j \in OppositeAlternates : i < j /\ ExpectedDiff(i) # ExpectedDiff(j)
    /\ \E r \in 1..Len(Emitted) : Emitted[r].kind = "media"

----------------------------------------------------------------------------
(* C6: a returned stylesheet is the base block, then the media-query block *)
(* if useDarkModeMediaQuery is true, then the selector blocks of the       *)
(* alternate variants in increasing theme index; for themes [dark, light]  *)
(* and default options that is one base block, one block for               *)
(* prefers-color-scheme: light and one selector block for the light theme. *)
C6_FragmentOrder ==
    Returned =>
        LET first == IF engine.useDarkModeMediaQuery THEN 3 ELSE 2
        IN  /\ Len(Emitted) >= first - 1
            /\ Emitted[1].kind = "base"
            /\ engine.useDarkModeMediaQuery => Emitted[2].kind = "media"
            /\ \A r \in first..Len(Emitted) : Emitted[r].kind = "theme"
            /\ \A r, q \in first..Len(Emitted) :
                  r < q => Emitted[r].coreStyles[2] < Emitted[q].coreStyles[2]
            /\ (/\ Len(ConfiguredThemes) = 2
                /\ heap[ConfiguredThemes[1]].type = "dark"
                /\ heap[ConfiguredThemes[2]].type = "light"
                /\ configIn[1].useDarkModeMediaQuery = Undefined
                /\ configIn[1].themeCssSelector = Undefined
                /\ configIn[1].customizeTheme = Undefined) =>
                    /\ Len(Emitted) = 3
                    /\ Emitted[2].scheme = "light"
                    /\ Emitted[3].coreStyles = getCoreThemeStyles(1)
                    /\ Emitted[3].varSelectors =
                          LET sel(i) == "[data-theme='" \o heap[engine.themes[i]].name \o "']"
                          IN  ":root" \o sel(2) \o " &:not(" \o sel(1) \o "), &" \o sel(2)

\* a media-query block followed by two selector blocks
C6_Witness ==
    /\ Returned
    /\ Len(Emitted) = 4
    /\ Emitted[2].kind = "media"
    /\ Emitted[4].kind = "theme"

----------------------------------------------------------------------------
(* C7 as stated: a returned stylesheet has a selector block for alternate  *)
(* variant i if and only if themeCssSelector is not false and the selector *)
(* function returns a non-false value for theme i.                         *)
C7_BlockIffSelectorNotFalse ==
    Returned =>
        \A i \in 2..Len(engine.styleVariants) :
            (RulesOf("theme", i) # {}) <=>
                (/\ engine.themeCssSelector # SelectorOff
                 /\ ApplyThemeCssSelector(engine.themeCssSelector,
                                          heap[engine.styleVariants[i].theme]) # False)

(* C7 as amended: a returned stylesheet has a selector block (exactly one) *)
(* for alternate variant i if and only if themeCssSelector is not false    *)
(* and the selector function returns a non-empty string for theme i (not   *)
(* false, not ""); without themeCssSelector there is no selector block at  *)
(* all; the base block is always there and the media-query block is there  *)
(* exactly when useDarkModeMediaQuery is true.                             *)
C7_BlockIffSelectorTruthy ==
    Returned =>
        /\ \A i \in 2..Len(engine.styleVariants) :
              LET selected ==
                      /\ engine.themeCssSelector # SelectorOff
                      /\ ApplyThemeCssSelector(engine.themeCssSelector,
                                               heap[engine.styleVariants[i].theme])
                            \notin {False, Some("")}
              IN  Cardinality(RulesOf("theme", i)) = IF selected THEN 1 ELSE 0
        /\ engine.themeCssSelector = SelectorOff =>
              \A r \in 1..Len(Emitted) : Emitted[r].kind # "theme"
        /\ Cardinality({r \in 1..Len(Emitted) : Emitted[r].kind = "base"}) = 1
        /\ Cardinality({r \in 1..Len(Emitted) : Emitted[r].kind = "media"}) =
              IF engine.useDarkModeMediaQuery THEN 1 ELSE 0

\* a selector function that gives "" for one alternate theme, which gets no
\* block, and a selector for another, which gets one, next to a media query
C7_Witness ==
    /\ Returned
    /\ engine.themeCssSelector # SelectorOff
    /\ engine.useDarkModeMediaQuery
    /\ \E i \in 2..Len(engine.styleVariants) :
          /\ ApplyThemeCssSelector(engine.themeCssSelector,
                                   heap[engine.styleVariants[i].theme]) = Some("")
          /\ RulesOf("theme", i) = {}
    /\ \E i \in 2..Len(engine.styleVariants) : RulesOf("theme", i) # {}

----------------------------------------------------------------------------
(* C8: the stylesheets getBaseStyles and getThemeStyles return are, for a  *)
(* non-empty cascadeLayer, one single @layer rule of that name around the  *)
(* whole concatenation (no fragment wrapped on its own, nothing wrapped    *)
(* twice), and for the empty cascadeLayer the concatenation without any    *)
(* @layer rule.                                                            *)
C8_WrappedOnce ==
    LET wrapped(css, n) ==
            IF engine.cascadeLayer # ""
            THEN /\ Len(css) = 1
                 /\ css[1].kind = "layer"
                 /\ css[1].name = engine.cascadeLayer
                 /\ Len(css[1].body) = n
                 /\ \A r \in 1..n : css[1].body[r].kind # "layer"
            ELSE /\ Len(css) = n
                 /\ \A r \in 1..n : css[r].kind # "layer"
    IN  /\ Returned =>
              wrapped(themeStyles.returned[1],
                      1 + (IF engine.useDarkModeMediaQuery THEN 1 ELSE 0)
                        + Cardinality({i \in 2..Len(engine.styleVariants) : RulesOf("theme", i) # {}}))
        /\ (pc = "ready" /\ baseStyles # Undefined) =>
              wrapped(baseStyles[1],
                      1 + Cardinality({p \in 1..Len(engine.plugins) :
                                          /\ engine.plugins[p].baseStyles # Undefined
                                          /\ engine.plugins[p].baseStyles[1].css # ""}))

\* both stylesheets returned under a layer name, the theme stylesheet with
\* several fragments inside the one rule
C8_Witness ==
    /\ Returned
    /\ baseStyles # Undefined
    /\ engine.cascadeLayer = "ec"
    /\ Len(themeStyles.returned[1]) = 1
    /\ Len(themeStyles.returned[1][1].body) >= 3
    /\ Len(baseStyles[1][1].body) >= 2

----------------------------------------------------------------------------
(* C9: a getThemeStyles call, returning or throwing, leaves the engine's   *)
(* themes, style variants and resolved options (and the theme instances)   *)
(* as the constructor left them, and so does any interleaving with         *)
(* getBaseStyles and getJsModules; every getThemeStyles call gives what    *)
(* the first one gave.                                                     *)
C9_GetThemeStylesIdempotent ==
    pc = "ready" =>
        /\ engine = asBuilt[1].engine
        /\ heap = asBuilt[1].heap
        /\ themeCalls > 0 => themeStyles = firstThemeStyles

\* a second getThemeStyles call has returned a stylesheet of several
\* fragments after getBaseStyles and getJsModules were called
C9_Witness ==
    /\ Returned
    /\ themeCalls = 2
    /\ Len(Emitted) >= 3
    /\ baseStyles # Undefined /\ jsModules # Undefined

----------------------------------------------------------------------------
(* C10 as stated: with the deprecated `theme` option and no `themes` the   *)
(* engine's themes list is that one theme; with `themes` the list is       *)
(* `themes`; with neither it is the two built-in themes, dark then light.  *)
C10_ThemesAsConfigured ==
    pc = "ready" =>
        /\ engine.themes = ConfiguredThemes
        /\ (configIn[1].themes = Undefined /\ configIn[1].theme # Undefined) =>
              engine.themes = <<configIn[1].theme[1]>>
        /\ (configIn[1].themes = Undefined /\ configIn[1].theme = Undefined) =>
              /\ Len(engine.themes) = 2
              /\ heap[engine.themes[1]].name = "github-dark"
              /\ heap[engine.themes[2]].name = "github-light"

(* C10 as amended: the engine's themes list has the length of the          *)
(* configured list (`themes` when given, whatever `theme` is; else the one *)
(* deprecated `theme`; else the two built-in themes, github-dark then      *)
(* github-light, as new instances), and its element at each index is the   *)
(* configured instance of that index, or the instance customizeTheme       *)
(* returned for it when it returned one.                                   *)
C10_ThemesAsConfiguredThenCustomized ==
    pc = "ready" =>
        /\ Len(engine.themes) = Len(ConfiguredThemes)
        /\ \A i \in 1..Len(ConfiguredThemes) :
              engine.themes[i] = Nullish(ReplacementAt(i - 1), ConfiguredThemes[i])
        /\ configIn[1].customizeTheme = Undefined => engine.themes = ConfiguredThemes
        /\ (configIn[1].themes = Undefined /\ configIn[1].theme # Undefined) =>
              Len(engine.themes) = 1
        /\ (configIn[1].themes = Undefined /\ configIn[1].theme = Undefined) =>
              /\ Len(engine.themes) = 2
              /\ \A i \in 1..2 : ConfiguredThemes[i] \notin 1..Len(CallerHeap)
              /\ heap[ConfiguredThemes[1]].name = "github-dark"
              /\ heap[ConfiguredThemes[2]].name = "github-light"

\* the deprecated option alone, and customizeTheme has returned another
\* instance for its theme
C10_Witness ==
    /\ pc = "ready"
    /\ configIn[1].themes = Undefined /\ configIn[1].theme # Undefined
    /\ config[1].themes = Some(<<configIn[1].theme[1]>>)
    /\ ReplacementAt(0) # Undefined
    /\ engine.themes = <<ReplacementAt(0)[1]>>
    /\ engine.themes # <<configIn[1].theme[1]>>

----------------------------------------------------------------------------
(* C11: constructing an engine never mutates the configuration object it   *)
(* is given: once the constructor has returned, every field of the object  *)
(* (`theme` and `themes` included) has the value it had before the call,   *)
(* also when the deprecated `theme` option is moved into the themes list.  *)
C11_ConfigNotMutated ==
    pc = "ready" => config = configIn

----------------------------------------------------------------------------
(* Vocabulary of the constructor's calls *)

\* the positions in calls of the calls of one operation for one index (0-based)
CallsOf(op, i) == {c \in 1..Len(calls) : calls[c].op = op /\ calls[c].index = i}

\* the code background of a theme instance under the configured overrides:
\* the override of codeBackground when there is one, else the theme's own
ExpectedCodeBg(theme) ==
    LET ov == engine.styleOverrides
        hits == {k \in 1..Len(ov) : ov[k][1] = "codeBackground"}
    IN  IF hits = {} THEN heap[theme].bg ELSE ov[CHOOSE k \in hits : TRUE][2]

----------------------------------------------------------------------------
(* C12: with minSyntaxHighlightingColorContrast <= 0 the constructor makes *)
(* no preliminary style resolution and no contrast-adjustment call for any *)
(* theme, and no theme's colours are changed by construction; with a value *)
(* > 0 it makes, for every index of the themes list, exactly one           *)
(* preliminary resolution (with the configured style overrides) followed   *)
(* by exactly one contrast-adjustment call, on the engine's theme of that  *)
(* index, with the configured minimum and the codeBackground resolved for  *)
(* that theme under the overrides.                                         *)
C12_ContrastPass ==
    pc = "ready" =>
        IF engine.minSyntaxHighlightingColorContrast <= 0
        THEN /\ \A c \in 1..Len(calls) :
                    calls[c].op \notin {"resolveStyleSettings", "ensureMinSyntaxHighlightingColorContrast"}
             /\ \A id \in 1..Len(heap) : heap[id].contrast = Undefined
             /\ \A id \in 1..Len(CallerHeap) :
                    heap[id].bg = CallerHeap[id].bg /\ heap[id].fg = CallerHeap[id].fg
        ELSE \A i \in 1..Len(engine.themes) :
                LET resolved == CallsOf("resolveStyleSettings", i - 1)
                    adjusted == CallsOf("ensureMinSyntaxHighlightingColorContrast", i - 1)
                IN  /\ Cardinality(resolved) = 1
                    /\ Cardinality(adjusted) = 1
                    /\ \A r \in resolved, a \in adjusted :
                          /\ r < a
                          /\ calls[r].theme = engine.themes[i]
                          /\ calls[r].args = <<engine.styleOverrides>>
                          /\ calls[a].theme = engine.themes[i]
                          /\ calls[a].args = <<engine.minSyntaxHighlightingColorContrast,
                                               ExpectedCodeBg(engine.themes[i])>>
                          /\ heap[engine.themes[i]].contrast = Some(calls[a].args)

\* three themes adjusted against an overridden background that is none of
\* their own, one of them an instance customizeTheme returned
C12_Witness ==
    /\ pc = "ready"
    /\ engine.minSyntaxHighlightingColorContrast > 0
    /\ Len(engine.themes) = 3
    /\ engine.styleOverrides # <<>>
    /\ \E i \in 1..3 : ReplacementAt(i - 1) # Undefined
    /\ \A i \in 1..3 :
          /\ heap[engine.themes[i]].contrast # Undefined
          /\ heap[engine.themes[i]].contrast[1][2] # heap[engine.themes[i]].bg

----------------------------------------------------------------------------
(* C13: during construction customizeTheme is called exactly once per      *)
(* configured theme, with that theme, in theme order, before the contrast  *)
(* adjustment of that index and before the final resolution of the style   *)
(* variants; the instance it returns, or the configured instance when it   *)
(* returns nothing, is the one that is contrast-adjusted, stored in        *)
(* engine.themes at the same index and used for the style variant.         *)
C13_CustomizeThemeOncePerTheme ==
    (pc = "ready" /\ engine.customizeTheme # Undefined) =>
        LET customized == {c \in 1..Len(calls) : calls[c].op = "customizeTheme"}
            final == {c \in 1..Len(calls) : calls[c].op = "resolveStyleVariants"}
        IN  /\ Cardinality(customized) = Len(ConfiguredThemes)
            /\ \A c, d \in customized : c < d => calls[c].index < calls[d].index
            /\ Cardinality(final) = 1
            /\ \A f \in final : calls[f].args = <<engine.themes>>
            /\ \A i \in 1..Len(ConfiguredThemes) :
                  LET kept == IF ReplacementAt(i - 1) # Undefined
                              THEN ReplacementAt(i - 1)[1] ELSE ConfiguredThemes[i]
                  IN  /\ Cardinality(CallsOf("customizeTheme", i - 1)) = 1
                      /\ \A c \in CallsOf("customizeTheme", i - 1) :
                            /\ calls[c].theme = ConfiguredThemes[i]
                            /\ \A a \in CallsOf("resolveStyleSettings", i - 1)
                                        \cup CallsOf("ensureMinSyntaxHighlightingColorContrast", i - 1) :
                                  c < a /\ calls[a].theme = kept
                            /\ \A f \in final : c < f
                      /\ engine.themes[i] = kept
                      /\ engine.styleVariants[i].theme = kept

\* three themes with the contrast pass on: customizeTheme returned an
\* instance for one and nothing for another
C13_Witness ==
    /\ pc = "ready"
    /\ engine.customizeTheme # Undefined
    /\ Len(engine.themes) = 3
    /\ engine.minSyntaxHighlightingColorContrast > 0
    /\ \E i, j \in 1..3 :
          /\ ReplacementAt(i - 1) # Undefined
          /\ engine.themes[i] # ConfiguredThemes[i]
          /\ heap[engine.themes[i]].contrast # Undefined
          /\ ReplacementAt(j - 1) = Undefined
          /\ engine.themes[j] = ConfiguredThemes[j]

====
